---- MODULE Spec2Model ----
(***************************************************************************)
(* A model of pdf_to_universal_xml.py.                                     *)
(*                                                                         *)
(* The page pipeline of process_pdf (page range, OCR fallback, table       *)
(* engine chain, page text cleaning, counters, progress callback) is one   *)
(* state machine; its specifications differ only in which inputs Init lets *)
(* vary (the page range, the page texts, the OCR texts, the table          *)
(* engines' results, the failures of the OCR step and of the engines).     *)
(* A retention pass (_cleanup_old_sessions) and the session handling of    *)
(* process_pdf (session directory, combined.xml, manifest.json, the        *)
(* document handle) are a second one, over the output root's directories.  *)
(*                                                                         *)
(* Page text is a sequence of code points.  Time is counted in hours,      *)
(* sizes in bytes.                                                         *)
(***************************************************************************)
EXTENDS Integers, Sequences, FiniteSets, TLC

\* ------------------------------------------------------------------ bounds
MaxPages == 3       \* pages of the modelled PDF
MaxLen == 3         \* length of a page text whose cleaning is checked
MaxOcrLen == 2      \* length of the native and OCR texts of the OCR decision
MaxTables == 2      \* tables one engine call yields
MaxImages == 1      \* embedded images of one page
MaxSess == 3        \* session directories a retention pass is started on
MaxClock == 2       \* readings of time.time() during the modelled runs
NumIds == 2         \* distinct values of the truncated md5 digest

\* ------------------------------------------------------------- text helpers
\* The code points the texts are drawn from: NUL, tab, line feed, carriage
\* return, U+001C (a control character that str.strip() counts as
\* whitespace), space and the letter a.
Alphabet == {0, 9, 10, 13, 28, 32, 97}
OcrAlphabet == {32, 97}

SeqsUpTo(S, n) == UNION {[1..k -> S] : k \in 0..n}

\* str.strip()'s whitespace, among the code points below U+0100.
IsSpace(c) == c \in {9, 10, 11, 12, 13, 28, 29, 30, 31, 32, 133, 160}

\* The character class [\x00-\x08\x0B\x0C\x0E-\x1F] of clean_xml_text.
InCleanClass(c) == c \in (0..8) \cup {11, 12} \cup (14..31)

RECURSIVE LStrip(_)
LStrip(s) == IF s = <<>> THEN s
             ELSE IF IsSpace(Head(s)) THEN LStrip(Tail(s)) ELSE s

RECURSIVE RStrip(_)
RStrip(s) == IF s = <<>> THEN s
             ELSE IF IsSpace(s[Len(s)]) THEN RStrip(SubSeq(s, 1, Len(s) - 1)) ELSE s

\* str.strip()
strip_mut(s) == LStrip(s)
strip(s) == RStrip(LStrip(s))

\* str.replace("\r", "")
replace_cr_mut(s) == s
replace_cr(s) == SelectSeq(s, LAMBDA c : c # 13)

\* re.sub(r'[\x00-\x08\x0B\x0C\x0E-\x1F]', '', s)
clean_xml_text(s) == SelectSeq(s, LAMBDA c : ~InCleanClass(c))

\* cleaned_text of _append_page
cleaned_text(t) == clean_xml_text(strip(replace_cr(t)))

\* len(text.strip())
TrimLen(t) == Len(strip(t))

\* ------------------------------------------------------------ page pipeline
VARIABLES
  slice,              \* which inputs of the run vary (fixed by Init)
  pc,                 \* position of process_pdf: "clamp", "loop", "done", "raised"
  total_pages,        \* doc.page_count
  req_start, req_end, \* start_page and end_page as the caller passed them
  start_page, end_page,
  ocr_threshold,
  OCR_AVAILABLE, CAMELOT_AVAILABLE, TABULA_AVAILABLE,
  table_order,
  progress_cb,        \* whether the caller passed a progress callback
  num_pages_to_do,
  idx,                \* the loop variable of `for idx in range(...)`
  native,             \* page.get_text("text") of the page last processed
  text, ocr_txt, did_ocr,
  ocr_attempted,      \* whether the OCR step was entered for the page last processed
  ocr_outcome,        \* how that OCR step ended ("none" when it was not entered)
  imgs,               \* len(imgs) of the page last processed
  tbls,               \* the table records of the page last processed
  attempts,           \* the engine calls made for the page last processed, in order
  stats,
  xml_tree,           \* the page nodes under <content>, in document order
  progress_calls      \* the arguments of the calls of progress_cb, in order

\* the parameters of the run and the environment it runs in
pipeInputs == <<slice, total_pages, req_start, req_end, ocr_threshold,
                OCR_AVAILABLE, CAMELOT_AVAILABLE, TABULA_AVAILABLE, table_order,
                progress_cb>>

pipeVars == <<pipeInputs, pc, start_page, end_page, num_pages_to_do,
              idx, native, text, ocr_txt, did_ocr, ocr_attempted, ocr_outcome,
              imgs, tbls, attempts, stats, xml_tree, progress_calls>>

Unbound == <<-1>>   \* a local variable not assigned yet

DefaultTableOrder == <<"camelot", "tabula">>

\* table_order = table_order or ["camelot", "tabula"]
OrDefault(order) == IF order = <<>> THEN DefaultTableOrder ELSE order

TableOrders == {<<>>, <<"camelot">>, <<"tabula">>,
                <<"camelot", "tabula">>, <<"tabula", "camelot">>}

\* The inputs a page can present, per specification.
NativeTexts == CASE slice = "text" -> SeqsUpTo(Alphabet, MaxLen)
                 [] slice = "ocr" -> SeqsUpTo(OcrAlphabet, MaxOcrLen)
                 [] slice = "ocrfaults" -> {<<>>, <<97>>}
                 [] OTHER -> {<<97>>}
OcrTexts == CASE slice = "ocr" -> SeqsUpTo(OcrAlphabet, MaxOcrLen)
              [] slice = "ocrfaults" -> {<<>>, <<97, 97>>}
              [] OTHER -> {<<>>}
EngineYields == IF slice \in {"tables", "counts", "tablefaults"} THEN 0..MaxTables ELSE {0}
ImageCounts == IF slice \in {"range", "counts"} THEN 0..MaxImages ELSE {0}

\* The calls of a table engine that raise (after exporting their tables).
EngineCalls == {"camelot-lattice", "camelot-stream", "tabula"}
EngineRaises == IF slice = "tablefaults" THEN SUBSET EngineCalls ELSE {{}}

\* How the OCR step of a page ends: page rendered, preprocessed and read
\* ("ok"); first image_to_string call raised and the raw-image retry returned
\* ("retry_ok"); both calls raised ("both_failed"); _page_to_image raised
\* ("render_raised"); numpy or cv2 raised in _ocr_image ("preprocess_raised").
OcrRaises == {"render_raised", "preprocess_raised"}
OcrOutcomes == IF slice = "ocrfaults"
               THEN {"ok", "retry_ok", "both_failed"} \cup OcrRaises
               ELSE {"ok"}

\* ---- _extract_tables_page

CamelotEngine(flavor) == IF flavor = "lattice" THEN "camelot-lattice" ELSE "camelot-stream"

\* The table records one engine call appends to `out`, numbering them from
\* global_table_index: n is the number of tables the engine exports (before
\* it raises, when it does: `except Exception: pass` keeps `out` as it is).
Export(engine, page, n, gti) ==
  [i \in 1..n |-> [engine |-> engine, path |-> <<page, gti + i - 1>>,
                   index |-> gti + i - 1, page |-> page]]

export_tables_camelot(flavor, page, n, gti) ==
  [out |-> Export(CamelotEngine(flavor), page, n, gti), gti |-> gti + n]

export_tables_tabula(page, n, gti) ==
  [out |-> Export("tabula", page, n, gti), gti |-> gti + n]

\* global_table_index = 1, at the start of every call of _extract_tables_page
GlobalTableIndexStart(page) == 1

\* export_tables_camelot("lattice") or export_tables_camelot("stream"): the
\* second call is made when the first returned an empty list
StreamRetry_mut(lattice_out) == TRUE
StreamRetry(lattice_out) == lattice_out = <<>>

\* `if got: break`
Yielded_mut(got) == FALSE
Yielded(got) == got # <<>>

\* The loop `for engine in table_order`, from position i on.  acc holds
\* found_tables, the calls made so far and global_table_index; res gives the
\* number of tables each engine call exports when it is made and the calls
\* that end in an exception.
RECURSIVE EngineLoop(_, _, _, _, _)
EngineLoop(order, i, page, res, acc) ==
  IF i > Len(order) THEN acc
  ELSE IF order[i] = "camelot" /\ CAMELOT_AVAILABLE THEN
    LET lat == export_tables_camelot("lattice", page, res.lattice, acc.gti)
        str == export_tables_camelot("stream", page, res.stream, lat.gti)
        retry == StreamRetry(lat.out)
        got == IF retry THEN str.out ELSE lat.out
        acc2 == [found |-> acc.found \o got,
                 attempts |-> acc.attempts
                     \o <<[engine |-> "camelot-lattice", n |-> Len(lat.out),
                           raised |-> "camelot-lattice" \in res.raised]>>
                     \o (IF retry THEN <<[engine |-> "camelot-stream", n |-> Len(str.out),
                                          raised |-> "camelot-stream" \in res.raised]>>
                         ELSE <<>>),
                 gti |-> IF retry THEN str.gti ELSE lat.gti]
    IN IF Yielded(got) THEN acc2 ELSE EngineLoop(order, i + 1, page, res, acc2)
  ELSE IF order[i] = "tabula" /\ TABULA_AVAILABLE THEN
    LET tab == export_tables_tabula(page, res.tabula, acc.gti)
        acc2 == [found |-> acc.found \o tab.out,
                 attempts |-> acc.attempts
                     \o <<[engine |-> "tabula", n |-> Len(tab.out),
                           raised |-> "tabula" \in res.raised]>>,
                 gti |-> tab.gti]
    IN IF Yielded(tab.out) THEN acc2 ELSE EngineLoop(order, i + 1, page, res, acc2)
  ELSE EngineLoop(order, i + 1, page, res, acc)

_extract_tables_page(page, order, res) ==
  EngineLoop(order, 1, page, res,
             [found |-> <<>>, attempts |-> <<>>, gti |-> GlobalTableIndexStart(page)])

\* ---- process_pdf, lines 372-413

\* if end_page <= 0 or end_page > total_pages: end_page = total_pages
ClampEnd_mut(e, total) == IF e <= 0 THEN total ELSE e
ClampEnd(e, total) == IF e <= 0 \/ e > total THEN total ELSE e

\* if start_page < 1: start_page = 1
ClampStart(s) == IF s < 1 THEN 1 ELSE s

\* if (len(text.strip()) < ocr_threshold) and OCR_AVAILABLE
NeedsOcr(t, threshold, available) == TrimLen(t) < threshold /\ available

\* if len(ocr_txt.strip()) > len(text.strip())
OcrWins_mut(ocr, t) == TrimLen(ocr) >= TrimLen(t)
OcrWins(ocr, t) == TrimLen(ocr) > TrimLen(t)

\* doc[idx]: PyMuPDF raises IndexError for a page number outside the document
PageExists(i, total) == -total <= i /\ i < total

\* `if images:` / `if tables:`, for a list of n items
HasBlock_mut(n) == TRUE
HasBlock(n) == n # 0

\* The node _append_page adds for a page: its <image> nodes are counted, its
\* <table_ref> nodes listed; images_block and tables_block tell whether the
\* <images> and the <tables> element exist.
PageNode(i, t, nimages, tables) ==
  [index |-> i + 1, text |-> cleaned_text(t),
   images_block |-> HasBlock(nimages),
   images |-> IF HasBlock(nimages) THEN nimages ELSE 0,
   tables_block |-> HasBlock(Len(tables)),
   tables |-> IF HasBlock(Len(tables))
              THEN [k \in 1..Len(tables) |-> [engine |-> tables[k].engine,
                                               path |-> tables[k].path]]
              ELSE <<>>]

ZeroStats == [pages |-> 0, ocr_pages |-> 0, images |-> 0, tables |-> 0]

\* lines 396, 403, 407-409: the counters after one more page
CountPage_mut(st, wins, nimages, ntables) ==
  [pages |-> st.pages + 1, ocr_pages |-> st.ocr_pages + (IF wins THEN 1 ELSE 0),
   images |-> st.images + nimages, tables |-> st.tables + (IF ntables > 0 THEN 1 ELSE 0)]
CountPage(st, wins, nimages, ntables) ==
  [pages |-> st.pages + 1, ocr_pages |-> st.ocr_pages + (IF wins THEN 1 ELSE 0),
   images |-> st.images + nimages, tables |-> st.tables + ntables]

\* num_pages_to_do = end_page - start_page + 1
NumPagesToDo_mut(s, e) == e - s
NumPagesToDo(s, e) == e - s + 1

\* ------------------------------------------------- sessions and retention
VARIABLES
  mode,            \* which callers run (fixed by Init)
  clock,           \* time.time(), in hours
  out_dir_exists,  \* whether the output root exists
  sessions,        \* the session_<id> directories under the output root
  manifest_json,   \* <output root>/manifest.json
  digest,          \* the md5 prefixes computed so far, by hashed key
  run,             \* the frame of each call of process_pdf
  cl,              \* the frame of each call of _cleanup_old_sessions
  pre,             \* per run: the output root as the run found it
  prior,           \* per run: the runs that had ended when it started
  snap             \* per run: its session directory as it left it

sessVars == <<mode, clock, out_dir_exists, sessions, manifest_json, digest,
              run, cl, pre, prior, snap>>

vars == <<pipeVars, sessVars>>

Procs == {1, 2}
SessionIds == 1..NumIds
Inputs == {"a.pdf", "missing.pdf"}

\* fitz.open(input_pdf) raises for a missing or unreadable file
CanOpen(input) == input # "missing.pdf"

NoFile == [by |-> 0]
None == [none |-> TRUE]

\* The files create_test_session puts into a session (test_cleanup.py).
TestFiles == {[name |-> "combined.xml", by |-> 0, size |-> 30],
              [name |-> "tables/page_001_table_001.xml", by |-> 0, size |-> 19],
              [name |-> "assets/images/page_001_img_001.png", by |-> 0, size |-> 15]}

AgeChoices == {0, 12, 18, 24, 30, 48}
MaxAgeChoices == {12, 24}

\* A function without the argument d / with the argument d set.
Without(f, d) == [x \in DOMAIN f \ {d} |-> f[x]]
With(f, d, v) == [x \in DOMAIN f \cup {d} |-> IF x = d THEN v ELSE f[x]]

RECURSIVE AscSeq(_)
AscSeq(S) == IF S = {} THEN <<>>
             ELSE LET m == CHOOSE x \in S : \A y \in S : x <= y
                  IN <<m>> \o AscSeq(S \ {m})

RECURSIVE SumSizes(_)
SumSizes(F) == IF F = {} THEN 0
               ELSE LET f == CHOOSE x \in F : TRUE
                    IN f.size + SumSizes(F \ {f})

\* _get_directory_size_mb, in bytes: the sizes of the files under the directory
\* (0 for a directory that is gone: the exception is swallowed).
_get_directory_size_mb(ss, d) == IF d \in DOMAIN ss THEN SumSizes(ss[d].files) ELSE 0

\* output_dir.iterdir(), filtered to the session directories.  The order is
\* the file system's: the sessions are numbered in that order.
Iterdir(ss) == AscSeq(DOMAIN ss)

\* list.sort(key=st_mtime, reverse=True): stable, newest first.
InsertByMtime(sorted, d, ss) ==
  LET pos == Cardinality({j \in 1..Len(sorted) : ss[sorted[j]].mtime >= ss[d].mtime})
  IN SubSeq(sorted, 1, pos) \o <<d>> \o SubSeq(sorted, pos + 1, Len(sorted))

RECURSIVE SortFrom(_, _, _, _)
SortFrom(dirs, k, acc, ss) ==
  IF k > Len(dirs) THEN acc
  ELSE SortFrom(dirs, k + 1, InsertByMtime(acc, dirs[k], ss), ss)

SortNewestFirst(dirs, ss) == SortFrom(dirs, 1, <<>>, ss)

\* age_hours = (current_time - st_mtime) / 3600
age_hours(now, ss, d) == now - ss[d].mtime

\* if age_hours > max_age_hours
TooOld_mut(age, max_age) == age >= max_age
TooOld(age, max_age) == age > max_age

\* if len(session_dirs) <= 1
NothingToClean_mut(n) == n <= 0
NothingToClean(n) == n <= 1

\* Strategy 1: the sessions older than max_age_hours, in sorted order
Aged(dirs, now, ss, max_age) ==
  LET old == SelectSeq(dirs, LAMBDA d : TooOld(age_hours(now, ss, d), max_age))
  IN [k \in 1..Len(old) |-> [dir |-> old[k], reason |-> "aged"]]

\* seq[k:], Python's slice from position k
SliceFrom(seq, k) ==
  LET from == IF k >= 0 THEN k
              ELSE IF Len(seq) + k > 0 THEN Len(seq) + k ELSE 0
  IN SubSeq(seq, from + 1, Len(seq))

\* Strategy 2: session_dirs[max_sessions:] when there are more than max_sessions
Excess(dirs, max_sessions) ==
  IF Len(dirs) > max_sessions THEN SliceFrom(dirs, max_sessions) ELSE <<>>

\* sessions_to_remove: the aged ones, then the excess ones not among them
SessionsToRemove_dup(dirs, now, ss, max_sessions, max_age) ==
  LET ex == Excess(dirs, max_sessions)
  IN Aged(dirs, now, ss, max_age)
       \o [k \in 1..Len(ex) |-> [dir |-> ex[k], reason |-> "excess_count"]]
SessionsToRemove_swap(dirs, now, ss, max_sessions, max_age) ==
  LET ex == Excess(dirs, max_sessions)
      aged == SelectSeq(Aged(dirs, now, ss, max_age),
                        LAMBDA a : ~\E k \in 1..Len(ex) : ex[k] = a.dir)
  IN [k \in 1..Len(ex) |-> [dir |-> ex[k], reason |-> "excess_count"]] \o aged
SessionsToRemove(dirs, now, ss, max_sessions, max_age) ==
  LET aged == Aged(dirs, now, ss, max_age)
      ex == SelectSeq(Excess(dirs, max_sessions),
                      LAMBDA d : ~\E k \in 1..Len(aged) : aged[k].dir = d)
  IN aged \o [k \in 1..Len(ex) |-> [dir |-> ex[k], reason |-> "excess_count"]]

ZeroCleanupStats == [sessions_found |-> 0, sessions_removed |-> 0, sessions_kept |-> 0,
                     space_freed_mb |-> 0, cleanup_reason |-> <<>>]

IdleCl == [pc |-> "none", max_sessions |-> 0, max_age_hours |-> 0, session_dirs |-> <<>>,
           current_time |-> 0, sessions_to_remove |-> <<>>, i |-> 1,
           cleanup_stats |-> ZeroCleanupStats]

\* _cleanup_old_sessions(output_dir, max_sessions, max_age_hours) is entered
CallCleanup(ms, ma) == [IdleCl EXCEPT !.pc = "enumerate", !.max_sessions = ms,
                                      !.max_age_hours = ma]

IdleRun == [pc |-> "idle", input_pdf |-> "a.pdf", start_page |-> 1, end_page |-> 0,
            auto_cleanup |-> FALSE, max_sessions |-> 5, max_age_hours |-> 24,
            session_id |-> 0, doc |-> "none", closes |-> 0, raised_in |-> "none",
            manifest |-> None, returned |-> None]

\* fields the session specifications leave alone / the pipeline ones do
PipeIdle ==
  /\ slice = "none" /\ total_pages = 0 /\ req_start = 1 /\ req_end = 0
  /\ ocr_threshold = 0 /\ OCR_AVAILABLE = FALSE
  /\ CAMELOT_AVAILABLE = FALSE /\ TABULA_AVAILABLE = FALSE
  /\ table_order = DefaultTableOrder /\ progress_cb = FALSE
  /\ pc = "clamp" /\ start_page = 1 /\ end_page = 0 /\ num_pages_to_do = 0
  /\ idx = 0 /\ native = Unbound /\ text = Unbound /\ ocr_txt = Unbound
  /\ did_ocr = FALSE /\ ocr_attempted = FALSE /\ ocr_outcome = "none" /\ imgs = 0
  /\ tbls = <<>> /\ attempts = <<>>
  /\ stats = ZeroStats /\ xml_tree = <<>> /\ progress_calls = <<>>

SessIdle ==
  /\ mode = "none" /\ clock = 0 /\ out_dir_exists = FALSE
  /\ sessions = <<>> /\ manifest_json = NoFile /\ digest = <<>>
  /\ run = [p \in Procs |-> IdleRun] /\ cl = [p \in Procs |-> IdleCl]
  /\ pre = [p \in Procs |-> None] /\ prior = [p \in Procs |-> {}]
  /\ snap = [p \in Procs |-> None]

InitLocals ==
  /\ pc = "clamp"
  /\ start_page = req_start /\ end_page = req_end /\ num_pages_to_do = 0
  /\ idx = 0 /\ native = Unbound /\ text = Unbound /\ ocr_txt = Unbound
  /\ did_ocr = FALSE /\ ocr_attempted = FALSE /\ ocr_outcome = "none" /\ imgs = 0
  /\ tbls = <<>> /\ attempts = <<>>
  /\ stats = ZeroStats /\ xml_tree = <<>> /\ progress_calls = <<>>

NoEngines ==
  /\ CAMELOT_AVAILABLE = FALSE /\ TABULA_AVAILABLE = FALSE
  /\ table_order = DefaultTableOrder

\* Any document, any requested range.
InitRange ==
  /\ slice = "range"
  /\ total_pages \in 0..MaxPages
  /\ req_start \in -1..(MaxPages + 1)
  /\ req_end \in -1..(MaxPages + 1)
  /\ ocr_threshold = 0 /\ OCR_AVAILABLE = FALSE
  /\ progress_cb \in BOOLEAN
  /\ NoEngines
  /\ InitLocals
  /\ SessIdle

\* Any native text, any OCR text, any threshold.
InitOcr ==
  /\ slice = "ocr"
  /\ total_pages \in 1..2
  /\ req_start = 1 /\ req_end = 0
  /\ ocr_threshold \in 0..(MaxOcrLen + 1)
  /\ OCR_AVAILABLE \in BOOLEAN
  /\ progress_cb = FALSE
  /\ NoEngines
  /\ InitLocals
  /\ SessIdle

\* Any page text.
InitText ==
  /\ slice = "text"
  /\ total_pages = 1
  /\ req_start = 1 /\ req_end = 0
  /\ ocr_threshold = 0 /\ OCR_AVAILABLE = FALSE
  /\ progress_cb = FALSE
  /\ NoEngines
  /\ InitLocals
  /\ SessIdle

\* Any engine order, availability and yield.
InitTables ==
  /\ slice = "tables"
  /\ total_pages \in 1..MaxPages
  /\ req_start = 1 /\ req_end = 0
  /\ ocr_threshold = 0 /\ OCR_AVAILABLE = FALSE
  /\ CAMELOT_AVAILABLE \in BOOLEAN /\ TABULA_AVAILABLE \in BOOLEAN
  /\ \E o \in TableOrders : table_order = OrDefault(o)
  /\ progress_cb = FALSE
  /\ InitLocals
  /\ SessIdle

\* Any number of images and of tables on every page (tabula alone installed).
InitCounts ==
  /\ slice = "counts"
  /\ total_pages \in 0..MaxPages
  /\ req_start = 1 /\ req_end = 0
  /\ ocr_threshold = 0 /\ OCR_AVAILABLE = FALSE
  /\ CAMELOT_AVAILABLE = FALSE /\ TABULA_AVAILABLE = TRUE
  /\ table_order = DefaultTableOrder
  /\ progress_cb = FALSE
  /\ InitLocals
  /\ SessIdle

\* Table engines that raise, at once or after exporting some tables.
InitTableFaults ==
  /\ slice = "tablefaults"
  /\ total_pages \in 1..2
  /\ req_start = 1 /\ req_end = 0
  /\ ocr_threshold = 0 /\ OCR_AVAILABLE = FALSE
  /\ CAMELOT_AVAILABLE \in BOOLEAN /\ TABULA_AVAILABLE \in BOOLEAN
  /\ \E o \in TableOrders : table_order = OrDefault(o)
  /\ progress_cb = FALSE
  /\ InitLocals
  /\ SessIdle

\* An OCR step that fails: in rendering, in preprocessing, in the engine.
InitOcrFaults ==
  /\ slice = "ocrfaults"
  /\ total_pages \in 1..2
  /\ req_start = 1 /\ req_end = 0
  /\ ocr_threshold \in {0, MaxOcrLen + 1}
  /\ OCR_AVAILABLE \in BOOLEAN
  /\ progress_cb = FALSE
  /\ NoEngines
  /\ InitLocals
  /\ SessIdle

\* lines 372-382: the range is clamped and the counters are set up
Clamp ==
  /\ pc = "clamp"
  /\ end_page' = ClampEnd(end_page, total_pages)
  /\ start_page' = ClampStart(start_page)
  /\ stats' = ZeroStats
  /\ num_pages_to_do' = NumPagesToDo(start_page', end_page')
  /\ idx' = start_page' - 1
  /\ pc' = "loop"
  /\ UNCHANGED <<pipeInputs, native, text, ocr_txt, did_ocr, ocr_attempted,
                 ocr_outcome, imgs, tbls, attempts, xml_tree, progress_calls>>
  /\ UNCHANGED sessVars

\* lines 383-412: one iteration of the page loop.  doc[idx] raises for a page
\* outside the document; _page_to_image and the preprocessing in _ocr_image
\* are not guarded, so their exceptions leave process_pdf; the two calls of
\* pytesseract are.
ProcessPage ==
  /\ pc = "loop"
  /\ idx < end_page
  /\ IF ~PageExists(idx, total_pages)
     THEN /\ pc' = "raised"
          /\ UNCHANGED <<idx, native, text, ocr_txt, did_ocr, ocr_attempted,
                         ocr_outcome, imgs, tbls, attempts, stats, xml_tree,
                         progress_calls>>
     ELSE \E t \in NativeTexts :
          LET attempt == NeedsOcr(t, ocr_threshold, OCR_AVAILABLE)
          IN \E oc \in (IF attempt THEN OcrOutcomes ELSE {"none"}) :
             IF oc \in OcrRaises
             THEN /\ native' = t
                  /\ text' = t
                  /\ did_ocr' = FALSE
                  /\ ocr_attempted' = TRUE
                  /\ ocr_outcome' = oc
                  /\ pc' = "raised"
                  /\ UNCHANGED <<idx, ocr_txt, imgs, tbls, attempts, stats, xml_tree,
                                 progress_calls>>
             ELSE \E o \in (CASE oc = "none" -> {ocr_txt}
                               [] oc = "both_failed" -> {<<>>}
                               [] OTHER -> OcrTexts),
                     ni \in ImageCounts,
                     res \in [lattice : EngineYields, stream : EngineYields,
                              tabula : EngineYields, raised : EngineRaises] :
                  LET wins == attempt /\ OcrWins(o, t)
                      txt == IF wins THEN o ELSE t
                      ext == _extract_tables_page(idx + 1, table_order, res)
                  IN /\ native' = t
                     /\ ocr_attempted' = attempt
                     /\ ocr_outcome' = oc
                     /\ ocr_txt' = o
                     /\ text' = txt
                     /\ did_ocr' = wins
                     /\ imgs' = ni
                     /\ tbls' = ext.found
                     /\ attempts' = ext.attempts
                     /\ xml_tree' = Append(xml_tree, PageNode(idx, txt, ni, ext.found))
                     /\ stats' = CountPage(stats, wins, ni, Len(ext.found))
                     /\ progress_calls' =
                          IF progress_cb
                          THEN Append(progress_calls, <<stats'.pages, num_pages_to_do>>)
                          ELSE progress_calls
                     /\ idx' = idx + 1
                     /\ pc' = "loop"
  /\ UNCHANGED <<pipeInputs, start_page, end_page, num_pages_to_do>>
  /\ UNCHANGED sessVars

\* the loop ends: range(start_page - 1, end_page) is exhausted
EndLoop ==
  /\ pc = "loop"
  /\ idx >= end_page
  /\ pc' = "done"
  /\ UNCHANGED <<pipeInputs, start_page, end_page, num_pages_to_do, idx, native,
                 text, ocr_txt, did_ocr, ocr_attempted, ocr_outcome, imgs, tbls,
                 attempts, stats, xml_tree, progress_calls>>
  /\ UNCHANGED sessVars

NextPipe == Clamp \/ ProcessPage \/ EndLoop


SpecRange == InitRange /\ [][NextPipe]_vars
SpecOcr == InitOcr /\ [][NextPipe]_vars
SpecText == InitText /\ [][NextPipe]_vars
SpecTables == InitTables /\ [][NextPipe]_vars
SpecCounts == InitCounts /\ [][NextPipe]_vars
SpecTableFaults == InitTableFaults /\ [][NextPipe]_vars
SpecOcrFaults == InitOcrFaults /\ [][NextPipe]_vars

\* ------------------------------------------------------- claims: page pipeline

Last(s) == s[Len(s)]

\* The pages s..e, in ascending order, each once; none when s > e.
PagesAre(s, e) ==
  LET n == IF s <= e THEN e - s + 1 ELSE 0
  IN /\ Len(xml_tree) = n
     /\ stats.pages = n
     /\ \A k \in 1..n : xml_tree[k].index = s + k - 1

Max(a, b) == IF a >= b THEN a ELSE b

\* C1 as stated: process_pdf never raises on a page range, and a finished run
\* holds exactly the pages s..e, s = max(start_page, 1), e = total_pages when
\* end_page is 0 or greater than total_pages and e = end_page otherwise.
C1_PagesAsClaimed ==
  /\ pc # "raised"
  /\ pc = "done" =>
       PagesAre(Max(req_start, 1),
                IF req_end = 0 \/ req_end > total_pages THEN total_pages ELSE req_end)

\* C1 amended: the same with e = total_pages whenever end_page <= 0 (a
\* negative end_page means "till the last page" too) or end_page > total_pages;
\* the pages processed so far are always a prefix of s..e, and an empty range
\* finishes with zero pages.
C1_PagesInRange ==
  LET s == Max(req_start, 1)
      e == IF req_end <= 0 \/ req_end > total_pages THEN total_pages ELSE req_end
  IN /\ pc # "raised"
     /\ pc = "done" => PagesAre(s, e)
     /\ \A k \in 1..Len(xml_tree) : xml_tree[k].index = s + k - 1 /\ s + k - 1 <= e

\* A finished run whose negative end_page ran to the last page and whose
\* start_page was clamped to 1.
C1_Witness ==
  /\ pc = "done" /\ req_start < 1 /\ req_end < 0
  /\ Len(xml_tree) = total_pages /\ total_pages >= 2

RECURSIVE TableRefsFrom(_)
TableRefsFrom(k) ==
  IF k > Len(xml_tree) THEN <<>> ELSE xml_tree[k].tables \o TableRefsFrom(k + 1)

\* The index in a table's file name page_<page>_table_<index>.xml
IndexOf(ref) == ref.path[2]

\* C2: over one run the table index is strictly increasing: of any two table
\* records, the later one (same page or a later page) has the larger index.
C2_TableIndexIncreasing ==
  LET refs == TableRefsFrom(1)
  IN \A i, j \in 1..Len(refs) : i < j => IndexOf(refs[i]) < IndexOf(refs[j])

\* C3: the native text is replaced by the OCR text iff its trimmed length is
\* below the threshold, OCR is available and the OCR text is strictly longer
\* (trimmed); OCR is attempted only below the threshold.
C3_OcrReplacement ==
  Len(xml_tree) > 0 =>
    LET below == Len(strip(native)) < ocr_threshold /\ OCR_AVAILABLE
    IN /\ ocr_attempted <=> below
       /\ did_ocr <=> (below /\ Len(strip(ocr_txt)) > Len(strip(native)))
       /\ text = IF did_ocr THEN ocr_txt ELSE native
       /\ Last(xml_tree).text = cleaned_text(text)

\* OCR ran and returned a text of the same trimmed length, which was discarded.
C3_Witness ==
  /\ Len(xml_tree) > 0 /\ ocr_attempted /\ ~did_ocr
  /\ Len(strip(native)) > 0 /\ ocr_txt # native
  /\ Len(strip(ocr_txt)) = Len(strip(native))
  /\ text = native

EngineOf(a) == IF a.engine = "tabula" THEN "tabula" ELSE "camelot"
Available(e) == \/ e = "camelot" /\ CAMELOT_AVAILABLE
                \/ e = "tabula" /\ TABULA_AVAILABLE
Pos(e) == CHOOSE i \in 1..Len(table_order) : table_order[i] = e
Attempted(e) == \E k \in 1..Len(attempts) : EngineOf(attempts[k]) = e

\* C4: for the page last processed, the engines were called in the configured
\* order, none of them unavailable; only the last call yielded tables, every
\* available engine up to the winner was called, and the page's tables are
\* exactly the winner's.
C4_EngineChain ==
  Len(xml_tree) > 0 =>
    LET won == attempts # <<>> /\ Last(attempts).n > 0
        winner == IF won THEN Pos(EngineOf(Last(attempts))) ELSE Len(table_order)
    IN /\ \A k \in 1..Len(attempts) :
            /\ Available(EngineOf(attempts[k]))
            /\ \E i \in 1..Len(table_order) : table_order[i] = EngineOf(attempts[k])
       /\ \A j, k \in 1..Len(attempts) :
            j < k => Pos(EngineOf(attempts[j])) <= Pos(EngineOf(attempts[k]))
       /\ \A k \in 1..(Len(attempts) - 1) : attempts[k].n = 0
       /\ \A i \in 1..Len(table_order) :
            (i <= winner /\ Available(table_order[i])) => Attempted(table_order[i])
       /\ \A i \in 1..Len(table_order) : i > winner => ~Attempted(table_order[i])
       /\ IF won
          THEN /\ Len(tbls) = Last(attempts).n
               /\ \A k \in 1..Len(tbls) : tbls[k].engine = Last(attempts).engine
          ELSE tbls = <<>>
       /\ Last(xml_tree).tables = [k \in 1..Len(tbls) |->
                                     [engine |-> tbls[k].engine, path |-> tbls[k].path]]

\* camelot came first, was available and found nothing in either mode, and
\* tabula was then called for the same page and won.
C4_Witness ==
  /\ Len(xml_tree) > 0
  /\ table_order = <<"camelot", "tabula">> /\ CAMELOT_AVAILABLE
  /\ Len(attempts) = 3 /\ attempts[1].n = 0 /\ attempts[2].n = 0
  /\ attempts[3].engine = "tabula" /\ Len(tbls) = MaxTables

IsDisallowedControl(c) == c < 32 /\ c # 9 /\ c # 10

\* C10 as stated: the text stored for a page is the page's text with only the
\* disallowed control characters and the carriage returns removed.
C10_OnlyControlsRemoved ==
  Len(xml_tree) > 0 =>
    Last(xml_tree).text = SelectSeq(text, LAMBDA c : ~IsDisallowedControl(c) /\ c # 13)

\* C10 amended: the text stored is the page's text without its carriage
\* returns, then without its leading and trailing whitespace, then without the
\* disallowed control characters: u[i..j-1] below is the part of the text
\* between its first and its last non-whitespace character.
C10_TrimmedThenCleaned ==
  Len(xml_tree) > 0 =>
    LET u == SelectSeq(text, LAMBDA c : c # 13)
    IN \E i, j \in 1..(Len(u) + 1) :
         /\ i <= j
         /\ \A k \in 1..(i - 1) : IsSpace(u[k])
         /\ \A k \in j..Len(u) : IsSpace(u[k])
         /\ i < j => ~IsSpace(u[i]) /\ ~IsSpace(u[j - 1])
         /\ Last(xml_tree).text =
              SelectSeq(SubSeq(u, i, j - 1), LAMBDA c : ~IsDisallowedControl(c))

\* A page whose text is a line feed, a NUL and a letter: the leading line feed
\* is trimmed and the NUL removed.
C10_Witness ==
  /\ Len(xml_tree) > 0
  /\ text = <<10, 0, 97>>
  /\ Last(xml_tree).text = <<97>>

\* C11: whatever the page text (NUL characters and carriage returns in any
\* position included), the text embedded for a page holds no NUL, no carriage
\* return and no other character below U+0020 except tab and line feed.
C11_NoForbiddenCharacter ==
  \A k \in 1..Len(xml_tree) :
    \A i \in 1..Len(xml_tree[k].text) :
      LET c == xml_tree[k].text[i]
      IN c # 0 /\ c # 13 /\ (c < 32 => c \in {9, 10})

\* A page whose text is a carriage return, a letter and a NUL was embedded
\* as the letter alone.
C11_Witness ==
  /\ Len(xml_tree) > 0
  /\ text = <<13, 97, 0>>
  /\ Last(xml_tree).text = <<97>>

RECURSIVE ImageNodesFrom(_)
ImageNodesFrom(k) ==
  IF k > Len(xml_tree) THEN 0 ELSE xml_tree[k].images + ImageNodesFrom(k + 1)

\* C12: after a successful run the manifest counts equal what combined.xml
\* holds: pages_processed the number of page nodes, images_extracted the
\* number of image nodes, tables_extracted the number of table_ref nodes,
\* over all pages; and a page has an images (tables) block if and only if it
\* has at least one image (table) reference.
C12_CountsMatchDocument ==
  /\ pc = "done" =>
       /\ stats.pages = Len(xml_tree)
       /\ stats.images = ImageNodesFrom(1)
       /\ stats.tables = Len(TableRefsFrom(1))
  /\ \A k \in 1..Len(xml_tree) :
       /\ xml_tree[k].images_block <=> xml_tree[k].images >= 1
       /\ xml_tree[k].tables_block <=> Len(xml_tree[k].tables) >= 1

\* A finished run of two pages or more: one page with an image and no table,
\* one with MaxTables tables and no image.
C12_Witness ==
  /\ pc = "done" /\ Len(xml_tree) >= 2
  /\ xml_tree[1].images = 1 /\ xml_tree[1].tables = <<>> /\ ~xml_tree[1].tables_block
  /\ xml_tree[2].images = 0 /\ Len(xml_tree[2].tables) = MaxTables
  /\ ~xml_tree[2].images_block
  /\ stats.images = 1 /\ stats.tables = MaxTables

\* The engine calls of the page last processed that ended in an exception
\* count for nothing: no table of the page comes from such a call, and the
\* chain went on after it (a raising call is the last one only when no
\* available engine follows it in table_order).
RaisedCallsCountForNothing ==
  \A k \in 1..Len(attempts) :
    attempts[k].raised =>
      /\ \A j \in 1..Len(tbls) : tbls[j].engine # attempts[k].engine
      /\ k = Len(attempts) =>
           /\ attempts[k].engine # "camelot-lattice"
           /\ \A i \in 1..Len(table_order) :
                i > Pos(EngineOf(attempts[k])) => ~Available(table_order[i])

\* C13: a table-extraction failure never aborts the run: an exception raised
\* by a table engine is treated as zero tables from that engine and the next
\* engine is still tried, a page on which every engine fails records zero
\* tables, and every page of the range is processed.
C13_EngineFailureMeansNoTables ==
  /\ pc # "raised"
  /\ pc = "done" => Len(xml_tree) = total_pages
  /\ Len(xml_tree) > 0 =>
       /\ RaisedCallsCountForNothing
       /\ (\A k \in 1..Len(attempts) : attempts[k].raised) =>
            (tbls = <<>> /\ Last(xml_tree).tables = <<>>)

\* Extent of the C13 failure: the claim holds of the pages on which every
\* raising call raised before it had exported a table.
C13_HoldsWithoutPartialExport ==
  (\A k \in 1..Len(attempts) : attempts[k].raised => attempts[k].n = 0) =>
    C13_EngineFailureMeansNoTables

IsCamelot(e) == e \in {"camelot-lattice", "camelot-stream"}

OcrFailed == ocr_outcome \in {"both_failed"} \cup OcrRaises

\* C14: when OCR is unavailable or the OCR step of a page fails (rendering,
\* preprocessing, or the engine and its raw-image retry), the run goes on, and
\* the page is embedded with its native text and is not counted as an OCR page.
C14_OcrFailureKeepsNativeText ==
  /\ OcrFailed => pc # "raised"
  /\ (Len(xml_tree) > 0 /\ (~OCR_AVAILABLE \/ OcrFailed)) =>
       /\ text = native /\ ~did_ocr
       /\ Last(xml_tree).text = cleaned_text(native)
  /\ ~OCR_AVAILABLE => stats.ocr_pages = 0

\* Extent of the C14 failure: the claim holds when OCR is unavailable and
\* when it is the OCR engine that fails (both calls of pytesseract).
C14_HoldsForEngineFailure ==
  ocr_outcome \notin OcrRaises => C14_OcrFailureKeepsNativeText

\* C19: with a progress callback and a non-empty clamped range s..e, the
\* callback is called once after each processed page, the k-th call with
\* (k, e - s + 1): pages_total is the same on every call, pages_done counts
\* 1, 2, ... and ends at pages_total.  Without a callback nothing is called.
C19_ProgressAfterEachPage ==
  LET s == Max(req_start, 1)
      e == IF req_end <= 0 \/ req_end > total_pages THEN total_pages ELSE req_end
      pages_total == e - s + 1
  IN /\ ~progress_cb => progress_calls = <<>>
     /\ (progress_cb /\ s <= e) =>
          /\ progress_calls = [k \in 1..Len(xml_tree) |-> <<k, pages_total>>]
          /\ pc = "done" =>
               (Len(progress_calls) = pages_total
                /\ Last(progress_calls) = <<pages_total, pages_total>>)

\* A finished run over pages 2..3 of a three-page document called back with
\* (1, 2) and then (2, 2).
C19_Witness ==
  /\ pc = "done" /\ progress_cb
  /\ req_start = 2 /\ total_pages = 3 /\ req_end = 0
  /\ progress_calls = << <<1, 2>>, <<2, 2>> >>

\* ------------------------------------------------ _cleanup_old_sessions

clOthers == <<mode, clock, out_dir_exists, manifest_json, digest, run, pre, prior, snap>>

\* lines 227-239: the session directories are listed and counted
ClEnumerate(p) ==
  /\ cl[p].pc = "enumerate"
  /\ LET dirs == Iterdir(sessions)
     IN IF ~out_dir_exists
        THEN cl' = [cl EXCEPT ![p].pc = "returned"]
        ELSE IF NothingToClean(Len(dirs))
        THEN cl' = [cl EXCEPT ![p].pc = "returned",
                              ![p].session_dirs = dirs,
                              ![p].cleanup_stats.sessions_found = Len(dirs),
                              ![p].cleanup_stats.sessions_kept = Len(dirs)]
        ELSE cl' = [cl EXCEPT ![p].pc = "select",
                              ![p].session_dirs = dirs,
                              ![p].cleanup_stats.sessions_found = Len(dirs)]
  /\ UNCHANGED <<sessions, clOthers, pipeVars>>

\* lines 241-258: the directories are sorted newest first and the candidates
\* chosen; stat() of a directory that is gone raises into the outer handler
ClSelect(p) ==
  /\ cl[p].pc = "select"
  /\ IF \E k \in 1..Len(cl[p].session_dirs) : cl[p].session_dirs[k] \notin DOMAIN sessions
     THEN cl' = [cl EXCEPT ![p].pc = "returned",
                           ![p].cleanup_stats.cleanup_reason =
                               Append(@, [dir |-> 0, reason |-> "cleanup_error"])]
     ELSE LET sorted == SortNewestFirst(cl[p].session_dirs, sessions)
          IN cl' = [cl EXCEPT ![p].pc = "remove",
                              ![p].session_dirs = sorted,
                              ![p].current_time = clock,
                              ![p].sessions_to_remove =
                                  SessionsToRemove(sorted, clock, sessions,
                                                   cl[p].max_sessions, cl[p].max_age_hours),
                              ![p].i = 1]
  /\ UNCHANGED <<sessions, clOthers, pipeVars>>

\* shutil.rmtree(session_dir): fails for a directory that is gone; a direct
\* call of the retention pass is also checked against deletions that fail
\* for other reasons (permissions, a file in use).
RmtreeOutcomes(d) ==
  IF d \notin DOMAIN sessions THEN {FALSE}
  ELSE IF mode \in {"retention", "faults"} THEN BOOLEAN ELSE {TRUE}

\* lines 267-269: the frame after candidate c, of size size_mb, was deleted
Deleted(f, c, size_mb) ==
  [f EXCEPT !.i = @ + 1,
            !.cleanup_stats.sessions_removed = @ + 1,
            !.cleanup_stats.space_freed_mb = @ + size_mb,
            !.cleanup_stats.cleanup_reason = Append(@, [dir |-> c.dir, reason |-> c.reason])]

\* lines 271-273: the frame after the deletion of candidate c raised; the
\* loop goes on with the next candidate
DeleteFailed_mut(f, c) ==
  [f EXCEPT !.pc = "returned",
            !.cleanup_stats.cleanup_reason = Append(@, [dir |-> 0, reason |-> "cleanup_error"])]
DeleteFailed(f, c) ==
  [f EXCEPT !.i = @ + 1,
            !.cleanup_stats.cleanup_reason = Append(@, [dir |-> c.dir, reason |-> "error"])]

\* lines 261-273: one candidate is measured and deleted; a failure of
\* shutil.rmtree is recorded
ClRemove(p) ==
  /\ cl[p].pc = "remove"
  /\ cl[p].i <= Len(cl[p].sessions_to_remove)
  /\ LET c == cl[p].sessions_to_remove[cl[p].i]
         size_mb == _get_directory_size_mb(sessions, c.dir)
     IN \E ok \in RmtreeOutcomes(c.dir) :
          IF ok
          THEN /\ sessions' = Without(sessions, c.dir)
               /\ cl' = [cl EXCEPT ![p] = Deleted(cl[p], c, size_mb)]
          ELSE /\ sessions' = sessions
               /\ cl' = [cl EXCEPT ![p] = DeleteFailed(cl[p], c)]
  /\ UNCHANGED <<clOthers, pipeVars>>

\* lines 275-280: the kept count is derived and the statistics returned
ClFinish(p) ==
  /\ cl[p].pc = "remove"
  /\ cl[p].i > Len(cl[p].sessions_to_remove)
  /\ cl' = [cl EXCEPT ![p].pc = "returned",
                      ![p].cleanup_stats.sessions_kept =
                          cl[p].cleanup_stats.sessions_found
                            - cl[p].cleanup_stats.sessions_removed]
  /\ UNCHANGED <<sessions, clOthers, pipeVars>>

\* The output root as a caller finds it.
Found == [out_dir_exists |-> out_dir_exists, sessions |-> sessions,
          manifest_json |-> manifest_json]

\* A session as create_test_session leaves it, age hours old.
TestSession(age) == [mtime |-> 0 - age, files |-> TestFiles]

\* A session of a run that found no image and no table: combined.xml alone.
BareSession(age) ==
  [mtime |-> 0 - age, files |-> {f \in TestFiles : f.name = "combined.xml"}]

\* The sessions and the two calls of test_cleanup.py (its first five sessions
\* are the spec's example, ages 0, 12, 18, 30 and 48 hours).
FixtureAges == {<<0, 12, 18, 30, 48>>, <<0, 12, 18, 30, 48, 72, 96>>}
FixtureCalls == {<<5, 24>>, <<3, 12>>}

\* A direct call of _cleanup_old_sessions (app.py's cleanup button, the
\* test): any few sessions of any ages, or the test's sessions.
InitRetention ==
  /\ mode = "retention" /\ clock = 0
  /\ manifest_json = NoFile /\ digest = <<>>
  /\ run = [p \in Procs |-> IdleRun]
  /\ prior = [p \in Procs |-> {}]
  /\ snap = [p \in Procs |-> None]
  /\ \/ \E n \in 0..MaxSess : \E ages \in [1..n -> AgeChoices] :
        \E ms \in 0..MaxSess, ma \in MaxAgeChoices, bare \in {{}, {1}} :
          /\ sessions = [d \in 1..n |-> IF d \in bare THEN BareSession(ages[d])
                                         ELSE TestSession(ages[d])]
          /\ out_dir_exists \in (IF n = 0 THEN BOOLEAN ELSE {TRUE})
          /\ cl = [p \in Procs |-> IF p = 1 THEN CallCleanup(ms, ma) ELSE IdleCl]
     \/ \E ages \in FixtureAges, call \in FixtureCalls :
          /\ sessions = [d \in 1..Len(ages) |-> TestSession(ages[d])]
          /\ out_dir_exists = TRUE
          /\ cl = [p \in Procs |-> IF p = 1 THEN CallCleanup(call[1], call[2]) ELSE IdleCl]
  /\ pre = [p \in Procs |-> IF p = 1 THEN Found ELSE None]
  /\ PipeIdle

NextRetention == ClEnumerate(1) \/ ClSelect(1) \/ ClRemove(1) \/ ClFinish(1)

SpecRetention == InitRetention /\ [][NextRetention]_vars

\* ----------------------------------------------------- claims: retention

Min(a, b) == IF a <= b THEN a ELSE b

Reasons(p) == cl[p].cleanup_stats.cleanup_reason
NoFailure(p) ==
  \A k \in 1..Len(Reasons(p)) : Reasons(p)[k].reason \notin {"error", "cleanup_error"}

\* C5: a pass over at least two sessions in which every deletion succeeds
\* removes exactly the sessions older than max_age_hours together with the
\* sessions beyond the newest max_sessions (a set R that leaves
\* min(max_sessions, n) sessions, none of them older than a member of R), and
\* leaves every other session as it was; a session whose age equals
\* max_age_hours is not removed for its age.
C5_RetentionRemovesExactly ==
  (cl[1].pc = "returned" /\ NoFailure(1) /\ Cardinality(DOMAIN pre[1].sessions) >= 2) =>
    LET before == pre[1].sessions
        all == DOMAIN before
        removed == all \ DOMAIN sessions
        old == {d \in all : clock - before[d].mtime > cl[1].max_age_hours}
    IN /\ DOMAIN sessions \subseteq all
       /\ \A d \in DOMAIN sessions : sessions[d] = before[d]
       /\ \E R \in SUBSET all :
            /\ Cardinality(all \ R) = Min(cl[1].max_sessions, Cardinality(all))
            /\ \A k \in all \ R, r \in R : before[k].mtime >= before[r].mtime
            /\ removed = old \cup R
       /\ cl[1].cleanup_stats.sessions_found = Cardinality(all)
       /\ cl[1].cleanup_stats.sessions_removed = Cardinality(removed)
       /\ cl[1].cleanup_stats.sessions_kept = Cardinality(DOMAIN sessions)

\* The spec's example: ages 0, 12, 18, 30 and 48 hours, max_sessions = 5,
\* max_age_hours = 24: the sessions aged 30 and 48 are gone, the others kept.
C5_Witness ==
  /\ cl[1].pc = "returned" /\ NoFailure(1)
  /\ cl[1].max_sessions = 5 /\ cl[1].max_age_hours = 24
  /\ DOMAIN pre[1].sessions = 1..5
  /\ \A d \in 1..5 : pre[1].sessions[d].mtime = 0 - <<0, 12, 18, 30, 48>>[d]
  /\ DOMAIN sessions = {1, 2, 3}
  /\ cl[1].cleanup_stats.sessions_removed = 2

\* C6: a pass over an output root with zero or one session directory deletes
\* nothing, whatever the session's age and the limits, and reports
\* sessions_removed = 0.
C6_SingleSessionNoOp ==
  Cardinality(DOMAIN pre[1].sessions) <= 1 =>
    /\ sessions = pre[1].sessions
    /\ cl[1].cleanup_stats.sessions_removed = 0
    /\ cl[1].pc = "returned" =>
         /\ cl[1].cleanup_stats.sessions_kept = Cardinality(DOMAIN sessions)
         /\ cl[1].cleanup_stats.cleanup_reason = <<>>

\* A pass with max_sessions = 0 has returned and the only session, older than
\* max_age_hours, is still there.
C6_Witness ==
  /\ cl[1].pc = "returned"
  /\ cl[1].max_sessions = 0
  /\ DOMAIN pre[1].sessions = {1}
  /\ clock - pre[1].sessions[1].mtime > cl[1].max_age_hours
  /\ sessions = pre[1].sessions

\* The sessions the pass found, those it has removed, its candidates.
Before == pre[1].sessions
RemovedSet == DOMAIN Before \ DOMAIN sessions
Candidates == cl[1].sessions_to_remove
EntriesFor(d) == {k \in 1..Len(Reasons(1)) : Reasons(1)[k].dir = d}

\* The on-disk size of the sessions D, as the pass found them.
RECURSIVE SizeOfAll(_)
SizeOfAll(D) == IF D = {} THEN 0
                ELSE LET d == CHOOSE x \in D : TRUE
                     IN SumSizes(Before[d].files) + SizeOfAll(D \ {d})

OlderThanMaxAge(d) == clock - Before[d].mtime > cl[1].max_age_hours
Newer(d) == {k \in DOMAIN Before \ {d} : Before[k].mtime > Before[d].mtime}
NotOlder(d) == {k \in DOMAIN Before \ {d} : Before[k].mtime >= Before[d].mtime}

\* at least max_sessions sessions are strictly newer than d
BeyondNewest(d) == Cardinality(Newer(d)) >= cl[1].max_sessions

\* C15: in a retention pass no session is a candidate, is removed or is
\* counted twice, also when both rules select it, and space_freed_mb is the
\* sum of the sizes of exactly the sessions removed.
C15_NoDoubleRemoval ==
  /\ \A i, j \in 1..Len(Candidates) : i < j => Candidates[i].dir # Candidates[j].dir
  /\ \A d \in DOMAIN Before : Cardinality(EntriesFor(d)) <= 1
  /\ cl[1].cleanup_stats.sessions_removed = Cardinality(RemovedSet)
  /\ cl[1].cleanup_stats.space_freed_mb = SizeOfAll(RemovedSet)

\* A pass has returned: it removed a session with combined.xml alone (30
\* bytes) and a full one (64 bytes), one of them selected by both rules.
C15_Witness ==
  /\ cl[1].pc = "returned"
  /\ cl[1].cleanup_stats.sessions_removed = 2
  /\ cl[1].cleanup_stats.space_freed_mb = 94
  /\ \E d \in RemovedSet : OlderThanMaxAge(d) /\ BeyondNewest(d)

\* C16: a deletion that fails is recorded as a reason entry of that session,
\* which is not counted as removed and whose size is not added; every
\* candidate is processed, in order, and the pass returns.
C16_DeletionFailureIsRecorded ==
  LET ok == {k \in 1..Len(Reasons(1)) : Reasons(1)[k].reason # "error"}
  IN /\ cl[1].pc = "remove" => Len(Reasons(1)) = cl[1].i - 1
     /\ (cl[1].pc = "returned" /\ Cardinality(DOMAIN Before) >= 2) =>
          Len(Reasons(1)) = Len(Candidates)
     /\ \A k \in 1..Len(Reasons(1)) :
          /\ Reasons(1)[k].dir = Candidates[k].dir
          /\ Reasons(1)[k].reason = "error" <=> Candidates[k].dir \in DOMAIN sessions
     /\ cl[1].cleanup_stats.sessions_removed = Cardinality(ok)
     /\ cl[1].cleanup_stats.space_freed_mb = SizeOfAll({Reasons(1)[k].dir : k \in ok})
     /\ cl[1].pc = "returned" =>
          cl[1].cleanup_stats.sessions_kept =
            cl[1].cleanup_stats.sessions_found - Cardinality(ok)

\* A pass has returned: the deletion of its first candidate failed and that
\* session is still there, the second candidate was deleted after it.
C16_Witness ==
  /\ cl[1].pc = "returned"
  /\ Len(Reasons(1)) >= 2
  /\ Reasons(1)[1].reason = "error" /\ Reasons(1)[1].dir \in DOMAIN sessions
  /\ Reasons(1)[2].reason # "error" /\ Reasons(1)[2].dir \notin DOMAIN sessions
  /\ cl[1].cleanup_stats.sessions_removed = Len(Reasons(1)) - 1

\* The rules the reason entry e names.
Tags(e) == {e.reason}

\* C17 as stated: every session removed has exactly one reason entry, which
\* tags every rule that selected the session: the age rule when it is older
\* than max_age_hours and the count rule when it is ranked beyond the newest
\* max_sessions, both when both hold.
C17_ReasonTagsEveryRule ==
  \A d \in RemovedSet :
    /\ Cardinality(EntriesFor(d)) = 1
    /\ LET e == Reasons(1)[CHOOSE k \in EntriesFor(d) : TRUE]
       IN /\ OlderThanMaxAge(d) => "aged" \in Tags(e)
          /\ BeyondNewest(d) => "excess_count" \in Tags(e)

\* C17 amended: every session removed has exactly one reason entry, which
\* names one rule: the age rule whenever the session is older than
\* max_age_hours (also when it is ranked beyond the newest max_sessions), the
\* count rule for a session that is not older than max_age_hours, which is
\* then ranked beyond the newest max_sessions.
C17_ReasonNamesOneRule ==
  \A d \in RemovedSet :
    /\ Cardinality(EntriesFor(d)) = 1
    /\ LET e == Reasons(1)[CHOOSE k \in EntriesFor(d) : TRUE]
       IN /\ e.reason \in {"aged", "excess_count"}
          /\ e.reason = "aged" <=> OlderThanMaxAge(d)
          /\ e.reason = "excess_count" =>
               Cardinality(NotOlder(d)) >= cl[1].max_sessions

\* A pass has returned: it removed a session that both rules selected, with
\* the age rule as its reason, and a younger one by count.
C17_Witness ==
  /\ cl[1].pc = "returned"
  /\ \E d \in RemovedSet :
       /\ OlderThanMaxAge(d) /\ BeyondNewest(d)
       /\ \E k \in EntriesFor(d) : Reasons(1)[k].reason = "aged"
  /\ \E d \in RemovedSet :
       /\ ~OlderThanMaxAge(d)
       /\ \E k \in EntriesFor(d) : Reasons(1)[k].reason = "excess_count"

\* ---------------------------------------- process_pdf: session and manifest

\* hashlib.md5(f"{input_pdf}_{time.time()}_{start_page}_{end_page}")
HashKey(input, now, s, e) == <<input, now, s, e>>

\* if session_dir.exists(): shutil.rmtree(session_dir)
ClearStale_mut(ss, id) == ss
ClearStale(ss, id) == Without(ss, id)

\* session_dir, tables_dir and images_dir are created, empty;
\* mkdir(parents=True, exist_ok=True) leaves a directory that exists as it is
MakeSessionTree(ss, id, now) ==
  IF id \in DOMAIN ss THEN ss ELSE With(ss, id, [mtime |-> now, files |-> {}])

\* A file is written (an existing file of that name is replaced).
AddFile(F, f) == {g \in F : g.name # f.name} \cup {f}

\* _safe_write_bytes into the session: the parents are created when missing;
\* a file added to the session directory itself changes the directory's mtime.
WriteInto(ss, id, f, now, direct) ==
  IF id \in DOMAIN ss
  THEN With(ss, id, [mtime |-> IF direct THEN now ELSE ss[id].mtime,
                     files |-> AddFile(ss[id].files, f)])
  ELSE With(ss, id, [mtime |-> now, files |-> {f}])

TableFile(p) == [name |-> "tables/page_000001_table_001.xml", by |-> p, size |-> 19]
ImageFile(p) == [name |-> "assets/images/page_000001_img_001.png", by |-> p, size |-> 15]
XmlFile(p) == [name |-> "combined.xml", by |-> p, size |-> 30]

\* The manifest dict of lines 417-444: the paths are (session id, name).
Manifest(p, r) ==
  [by |-> p, input |-> r.input_pdf, session_id |-> r.session_id,
   session_dir |-> <<r.session_id>>,
   xml |-> <<r.session_id, "combined.xml">>,
   tables_dir |-> <<r.session_id, "tables">>,
   images_dir |-> <<r.session_id, "assets/images">>]

\* json.dumps(manifest): what is written is the dict as it is at that moment
Dump(m) == m

\* manifest["cleanup_stats"] = cleanup_stats
WithCleanupStats(m, cs) == [k \in DOMAIN m \cup {"cleanup_stats"} |->
                              IF k = "cleanup_stats" THEN cs ELSE m[k]]

Ended(r) == r.pc \in {"done", "raised", "aborted"}

\* lines 458-460: finally: doc.close()
Finally_mut(r) == r
Finally(r) == [r EXCEPT !.doc = "closed", !.closes = @ + 1]

\* The places inside the try block an exception can leave process_pdf from,
\* by the position of the run: the page loop (a page's processing, the
\* progress callback), the writing of combined.xml, that of manifest.json.
\* (_cleanup_old_sessions catches every exception itself.)
RaisePoints(at) == CASE at = "pages" -> {"page", "progress_cb"}
                     [] at = "write_xml" -> {"write_xml"}
                     [] at = "write_manifest" -> {"write_manifest"}
                     [] OTHER -> {}

SessMaxSessions == {1, 5}
SessMaxAges == {24}

runOthers == <<mode, cl, snap>>

\* The runs of one process follow one another (process_pdf is
\* single-threaded); two processes on one output root (two app sessions, two
\* command lines) overlap.  The runs are numbered in the order they start.
CanStart(p) ==
  /\ run[p].pc = "idle"
  /\ \A q \in Procs \ {p} : \/ Ended(run[q])
                            \/ run[q].pc = "idle" /\ p < q
                            \/ mode = "overlap" /\ run[q].pc # "idle"

\* The inputs and retention settings of the runs, per specification.
RunInputs == IF mode = "overlap" THEN {"a.pdf", "b.pdf"} ELSE Inputs
RunMaxSessions == IF mode = "overlap" THEN {1} ELSE SessMaxSessions

\* lines 343-368: the session id is derived and the session tree created
Start(p) ==
  /\ mode \in {"runs", "faults", "overlap"}
  /\ CanStart(p)
  /\ \E input \in RunInputs, ac \in BOOLEAN, id \in SessionIds :
     \E ms \in (IF ac THEN RunMaxSessions ELSE {5}),
        ma \in (IF ac THEN SessMaxAges ELSE {24}) :
       LET key == HashKey(input, clock, 1, 0)
       IN /\ key \in DOMAIN digest => id = digest[key]
          /\ digest' = With(digest, key, id)
          /\ sessions' = MakeSessionTree(ClearStale(sessions, id), id, clock)
          /\ out_dir_exists' = TRUE
          /\ run' = [run EXCEPT ![p] = [IdleRun EXCEPT !.pc = "open",
                                                    !.input_pdf = input,
                                                    !.auto_cleanup = ac,
                                                    !.max_sessions = ms,
                                                    !.max_age_hours = ma,
                                                    !.session_id = id]]
          /\ pre' = [pre EXCEPT ![p] = Found]
          /\ prior' = [prior EXCEPT ![p] = {q \in Procs : Ended(run[q])}]
  /\ UNCHANGED <<runOthers, clock, manifest_json, pipeVars>>

\* line 370: fitz.open raises for a missing or unreadable input
Open(p) ==
  /\ run[p].pc = "open"
  /\ run' = [run EXCEPT ![p].pc = IF CanOpen(run[p].input_pdf) THEN "pages" ELSE "raised",
                        ![p].doc = IF CanOpen(run[p].input_pdf) THEN "open" ELSE "none"]
  /\ UNCHANGED <<runOthers, clock, out_dir_exists, sessions, manifest_json, digest,
                 pre, prior, pipeVars>>

\* lines 372-413: the files the page loop writes into the session
ProcessPages(p) ==
  /\ run[p].pc = "pages"
  /\ \E found \in BOOLEAN :         \* whether the pages hold an image and a table
       LET id == run[p].session_id
           image == found
           table == found
           s1 == IF image THEN WriteInto(sessions, id, ImageFile(p), clock, FALSE)
                 ELSE sessions
           s2 == IF table THEN WriteInto(s1, id, TableFile(p), clock, FALSE) ELSE s1
       IN sessions' = s2
  /\ run' = [run EXCEPT ![p].pc = "write_xml"]
  /\ UNCHANGED <<runOthers, clock, out_dir_exists, manifest_json, digest,
                 pre, prior, pipeVars>>

\* lines 414-415: combined.xml is written into the session directory
WriteXml(p) ==
  /\ run[p].pc = "write_xml"
  /\ sessions' = WriteInto(sessions, run[p].session_id, XmlFile(p), clock, TRUE)
  /\ run' = [run EXCEPT ![p].pc = "write_manifest"]
  /\ UNCHANGED <<runOthers, clock, out_dir_exists, manifest_json, digest,
                 pre, prior, pipeVars>>

\* lines 417-446: the manifest is built and written to <output root>/manifest.json
WriteManifest(p) ==
  /\ run[p].pc = "write_manifest"
  /\ LET m == Manifest(p, run[p])
     IN /\ manifest_json' = Dump(m)
        /\ run' = [run EXCEPT ![p].pc = "cleanup", ![p].manifest = m]
  /\ UNCHANGED <<runOthers, clock, out_dir_exists, sessions, digest,
                 pre, prior, pipeVars>>

\* lines 449-451: retention is entered when auto_cleanup is set
Cleanup(p) ==
  /\ run[p].pc = "cleanup"
  /\ cl[p].pc = "none"
  /\ IF run[p].auto_cleanup
     THEN /\ cl' = [cl EXCEPT ![p] = CallCleanup(run[p].max_sessions, run[p].max_age_hours)]
          /\ run' = run
     ELSE /\ cl' = cl
          /\ run' = [run EXCEPT ![p].pc = "return"]
  /\ UNCHANGED <<mode, snap, clock, out_dir_exists, sessions, manifest_json, digest,
                 pre, prior, pipeVars>>

\* lines 449-460: the statistics are added to the manifest, which is
\* returned; the document is closed
Return(p) ==
  /\ \/ run[p].pc = "return"
     \/ run[p].pc = "cleanup" /\ cl[p].pc = "returned"
  /\ LET cleanup_stats == IF run[p].auto_cleanup THEN cl[p].cleanup_stats ELSE << >>
         m == WithCleanupStats(run[p].manifest, cleanup_stats)
     IN run' = [run EXCEPT ![p] = Finally([run[p] EXCEPT !.pc = "done", !.manifest = m,
                                                         !.returned = m])]
  /\ snap' = [snap EXCEPT ![p] = IF run[p].session_id \in DOMAIN sessions
                                 THEN sessions[run[p].session_id] ELSE None]
  /\ UNCHANGED <<mode, cl, clock, out_dir_exists, sessions, manifest_json, digest,
                 pre, prior, pipeVars>>

\* The steps that read the clock or stamp a directory with it.
ReadsClock(p) == \/ CanStart(p)
                 \/ run[p].pc = "write_xml"
                 \/ cl[p].pc = "select"

\* an exception raised inside the try block leaves process_pdf through the
\* finally clause; what the run has written stays
Abort(p) ==
  /\ mode = "faults"
  /\ \E cause \in RaisePoints(run[p].pc) :
       run' = [run EXCEPT ![p] = Finally([run[p] EXCEPT !.pc = "aborted",
                                                        !.raised_in = cause])]
  /\ UNCHANGED <<runOthers, clock, out_dir_exists, sessions, manifest_json, digest,
                 pre, prior, pipeVars>>

\* time passes (seen only by the steps that read it)
Tick ==
  /\ mode \in {"runs", "faults"}
  /\ clock < MaxClock
  /\ \E p \in Procs : ReadsClock(p)
  /\ clock' = clock + 1
  /\ UNCHANGED <<mode, out_dir_exists, sessions, manifest_json, digest, run, cl,
                 pre, prior, snap, pipeVars>>

\* An output root that does not exist yet, an empty one, or one that holds a
\* session of an earlier day.
InitSession ==
  /\ mode = "runs" /\ clock = 0
  /\ \/ out_dir_exists = FALSE /\ sessions = << >>
     \/ out_dir_exists = TRUE /\ sessions = << >>
     \/ out_dir_exists = TRUE /\ sessions = [d \in {1} |-> TestSession(30)]
  /\ manifest_json = NoFile /\ digest = << >>
  /\ run = [p \in Procs |-> IdleRun] /\ cl = [p \in Procs |-> IdleCl]
  /\ pre = [p \in Procs |-> None] /\ prior = [p \in Procs |-> {}]
  /\ snap = [p \in Procs |-> None]
  /\ PipeIdle

NextSession ==
  \/ \E p \in Procs : \/ Start(p) \/ Open(p) \/ ProcessPages(p) \/ WriteXml(p)
                      \/ WriteManifest(p) \/ Cleanup(p) \/ Return(p)
                      \/ ClEnumerate(p) \/ ClSelect(p) \/ ClRemove(p) \/ ClFinish(p)
  \/ Tick

SpecSession == InitSession /\ [][NextSession]_vars

\* Runs in which anything inside the try block may raise and deletions may
\* fail, on an output root that holds a session of an earlier day.
InitFaults ==
  /\ mode = "faults" /\ clock = 0
  /\ out_dir_exists = TRUE
  /\ sessions = [d \in {NumIds + 1} |-> TestSession(30)]
  /\ manifest_json = NoFile /\ digest = << >>
  /\ run = [p \in Procs |-> IdleRun] /\ cl = [p \in Procs |-> IdleCl]
  /\ pre = [p \in Procs |-> None] /\ prior = [p \in Procs |-> {}]
  /\ snap = [p \in Procs |-> None]
  /\ PipeIdle

\* Two processes whose runs overlap, on an output root that holds a session
\* of an earlier day; the clock reading stays the same.
InitOverlap ==
  /\ mode = "overlap" /\ clock = 0
  /\ out_dir_exists = TRUE
  /\ sessions = [d \in {NumIds + 1} |-> TestSession(30)]
  /\ manifest_json = NoFile /\ digest = << >>
  /\ run = [p \in Procs |-> IdleRun] /\ cl = [p \in Procs |-> IdleCl]
  /\ pre = [p \in Procs |-> None] /\ prior = [p \in Procs |-> {}]
  /\ snap = [p \in Procs |-> None]
  /\ PipeIdle

NextOverlap ==
  \E p \in Procs : \/ Start(p) \/ Open(p) \/ ProcessPages(p) \/ WriteXml(p)
                    \/ WriteManifest(p) \/ Cleanup(p) \/ Return(p)
                    \/ ClEnumerate(p) \/ ClSelect(p) \/ ClRemove(p) \/ ClFinish(p)

SpecOverlap == InitOverlap /\ [][NextOverlap]_vars

NextFaults == NextSession \/ \E p \in Procs : Abort(p)

SpecFaults == InitFaults /\ [][NextFaults]_vars

\* ------------------------------------------- claims: session and manifest

\* Run q followed run p: p had returned when q started, both finished, on the
\* same input and page range, q without retention.
Consecutive(p, q) ==
  /\ p # q /\ p \in prior[q]
  /\ run[p].pc = "done" /\ run[q].pc = "done"
  /\ run[p].input_pdf = run[q].input_pdf
  /\ run[p].start_page = run[q].start_page /\ run[p].end_page = run[q].end_page
  /\ ~run[q].auto_cleanup

\* The session directory of p is as p left it.
Untouched(p) ==
  snap[p] # None =>
    /\ run[p].session_id \in DOMAIN sessions
    /\ sessions[run[p].session_id] = snap[p]

ManifestPaths == {"session_dir", "xml", "tables_dir", "images_dir"}

\* No path of q's manifest lies under the session directory of p.
NoPathUnder(q, p) ==
  \A k \in ManifestPaths : run[q].returned[k][1] # run[p].session_id

\* C7 as stated: two consecutive runs on the same output root, input and page
\* range use distinct session directories, the second leaves the first one's
\* directory untouched and its manifest names no path under it.
C7_SessionsIsolated ==
  \A p, q \in Procs :
    Consecutive(p, q) =>
      /\ run[p].session_id # run[q].session_id
      /\ Untouched(p)
      /\ NoPathUnder(q, p)

\* Extent of the C7 failure: isolation is lost only when the two derived
\* session ids are equal (an equal clock reading or a digest collision, upon
\* which the second run deletes and reuses the first one's directory); runs
\* with different ids are isolated.
IsolatedWhenIdsDiffer ==
  \A p, q \in Procs :
    (Consecutive(p, q) /\ run[p].session_id # run[q].session_id) =>
      /\ Untouched(p)
      /\ NoPathUnder(q, p)
      /\ run[q].session_id \in DOMAIN sessions
      /\ \A f \in sessions[run[q].session_id].files : f.by = q

\* Two consecutive runs with different ids are done; the first one's
\* directory still holds its combined.xml, the second one's its own.
TwoIsolatedRuns ==
  /\ Consecutive(1, 2)
  /\ run[1].session_id # run[2].session_id
  /\ XmlFile(1) \in sessions[run[1].session_id].files
  /\ TableFile(1) \in sessions[run[1].session_id].files
  /\ XmlFile(2) \in sessions[run[2].session_id].files

\* C18: when a run has created its session tree, and until it writes its
\* first file, its session directory holds no file (only the empty tables and
\* assets/images directories), whatever a directory of the same session id
\* held before.
C18_SessionStartsEmpty ==
  \A p \in Procs :
    run[p].pc \in {"open", "pages"} =>
      /\ run[p].session_id \in DOMAIN sessions
      /\ sessions[run[p].session_id].files = {}

\* A run is about to process its pages in a session directory whose id was
\* that of a directory holding files when the run started.
C18_Witness ==
  \E p \in Procs :
    /\ run[p].pc = "pages"
    /\ run[p].session_id \in DOMAIN pre[p].sessions
    /\ pre[p].sessions[run[p].session_id].files # {}
    /\ sessions[run[p].session_id].files = {}

\* C20: the document, once opened, is closed exactly once on every way out of
\* process_pdf (return, or an exception from a page, the progress callback,
\* the writing of combined.xml or of manifest.json; a failure inside retention
\* is caught there and the run returns), and is open until then.
C20_ClosedExactlyOnce ==
  \A p \in Procs :
    /\ run[p].pc \in {"idle", "open", "raised"} =>
         (run[p].doc = "none" /\ run[p].closes = 0)
    /\ run[p].pc \in {"pages", "write_xml", "write_manifest", "cleanup", "return"} =>
         (run[p].doc = "open" /\ run[p].closes = 0)
    /\ run[p].pc \in {"done", "aborted"} =>
         (run[p].doc = "closed" /\ run[p].closes = 1)

\* One run was left by an exception of the progress callback, the next one
\* returned after a retention pass in which a deletion failed: each closed
\* its document once.
C20_Witness ==
  /\ run[1].pc = "aborted" /\ run[1].raised_in = "progress_cb" /\ run[1].closes = 1
  /\ run[2].pc = "done" /\ run[2].auto_cleanup /\ run[2].closes = 1
  /\ \E k \in 1..Len(Reasons(2)) : Reasons(2)[k].reason = "error"

\* C8: when retention ran as part of a run, the manifest.json that run wrote
\* holds the run's cleanup statistics, the same as the manifest returned.
C8_PersistedManifestHasRetention ==
  \A p \in Procs :
    (run[p].pc = "done" /\ run[p].auto_cleanup /\ manifest_json.by = p) =>
      /\ "cleanup_stats" \in DOMAIN manifest_json
      /\ manifest_json = run[p].returned

\* C9: a run whose input could not be opened leaves the output root exactly
\* as it found it (no other run having started since): no directory, no
\* session, no file, no manifest of its own.
C9_FailedOpenWritesNothing ==
  \A p \in Procs :
    (/\ run[p].pc = "raised"
     /\ \A q \in Procs \ {p} : run[q].pc = "idle" \/ q \in prior[p]) =>
      Found = pre[p]

\* -- Overlapping runs and the edges of the retention pass --------------------

\* A run that is still writing pages, tables, images or its combined.xml.
InProgress(q) == run[q].pc \in {"pages", "write_xml"}

\* A step of the retention pass that run p entered at its end.
RetentionStep(p) ==
  /\ run[p].pc = "cleanup" /\ run[p].auto_cleanup
  /\ cl[p].pc = "remove" /\ cl'[p] # cl[p]

\* C21: when two runs share an output root and overlap in time, no step of
\* the retention pass at the end of one run deletes the session directory of
\* the other run while that run is still in progress.
C21_LiveSessionNotDeleted ==
  [][\A p, q \in Procs :
       (/\ p # q /\ run[p].session_id # run[q].session_id
        /\ InProgress(q) /\ run[q].session_id \in DOMAIN sessions
        /\ RetentionStep(p))
       => run[q].session_id \in DOMAIN sessions']_vars

\* The paths of a returned manifest that exist: the session directory, and
\* combined.xml inside it.
ReturnedPathsExist(p) ==
  /\ snap[p] # None
  /\ \E f \in snap[p].files : f.name = run[p].returned.xml[2]

\* C23: the retention pass at the end of a successful run (auto_cleanup,
\* max_sessions >= 1, max_age_hours > 0, no other run in progress) does not
\* delete the run's own session directory, so the paths of the returned
\* manifest exist at the return; and a pass over two or more sessions does
\* not remove the most recently modified session, the first in its order.
C23_NewestSessionSurvives ==
  /\ \A p \in Procs :
       (/\ run[p].pc = "done" /\ run[p].auto_cleanup
        /\ run[p].max_sessions >= 1 /\ run[p].max_age_hours > 0)
       => ReturnedPathsExist(p)
  /\ \A p \in Procs :
       (cl[p].pc = "returned" /\ Len(cl[p].session_dirs) >= 2 /\ NoFailure(p))
       => \A k \in 1..Len(Reasons(p)) : Reasons(p)[k].dir # cl[p].session_dirs[1]

\* C24: on every return path of _cleanup_old_sessions (a missing output
\* root, at most one session, a deletion that failed, a directory that
\* vanished between the listing and the sort) the report satisfies
\* sessions_found = sessions_removed + sessions_kept.
C24_FoundIsRemovedPlusKept ==
  \A p \in Procs :
    cl[p].pc = "returned" =>
      cl[p].cleanup_stats.sessions_found
        = cl[p].cleanup_stats.sessions_removed + cl[p].cleanup_stats.sessions_kept

\* The equation of C24 holds on the return paths that do not go through the
\* handler of line 277.
C24_HoldsWithoutCleanupError ==
  \A p \in Procs :
    (/\ cl[p].pc = "returned"
     /\ \A k \in 1..Len(Reasons(p)) : Reasons(p)[k].reason # "cleanup_error")
    => cl[p].cleanup_stats.sessions_found
         = cl[p].cleanup_stats.sessions_removed + cl[p].cleanup_stats.sessions_kept

====
